---- MODULE Spec2Model ----
(***************************************************************************)
(* remarkable-sync: the PDF -> markdown text reconstruction of the         *)
(* convert package (Converter.cleanupMarkdownText, Converter.PDFToMarkdown),*)
(* the markdown -> PDF walk (Converter.processMarkdown) and the command    *)
(* handlers of cmd/remarkable-sync/main.go.                                *)
(*                                                                         *)
(* A Go string is a sequence of one-character strings; a text is such a    *)
(* sequence with "\n" between its lines.                                   *)
(***************************************************************************)
EXTENDS Integers, Sequences, FiniteSets, TLC

VARIABLES
    mdOptions,      \* Converter.mdOptions
    extractedText,  \* PDFToMarkdown: the text read from the pdf
    pc,             \* PDFToMarkdown / cleanupMarkdownText: position in the code
    lines,          \* cleanupMarkdownText: strings.Split(text, "\n")
    pos,            \* cleanupMarkdownText: index of the next line of the range loop
    result,         \* cleanupMarkdownText: result []string
    inCodeBlock,    \* cleanupMarkdownText: inCodeBlock bool
    body,           \* PDFToMarkdown: extractedText as written after the frontmatter
    content,        \* PDFToMarkdown: the bytes given to os.WriteFile
    options,        \* Converter.options (PDFOptions)
    pdf,            \* processMarkdown: the state of the gofpdf document
    walkInCodeBlock,\* processMarkdown: its own inCodeBlock bool
    walked,         \* processMarkdown: the calls ast.WalkFunc has made to the callback
    open,           \* ast.WalkFunc: the containers entered and not yet left
    cells,          \* processMarkdown: the text written to the document, in order
    cmd,            \* main.go: the subcommand run
    restartXochitl, \* main.go: the --restart flag
    args,           \* the handler's args: the paths given, as the file system holds them
    obsidianVault,  \* main.go: the --vault path, as the file system holds it
    hpc,            \* the handler's position in its code
    paths,          \* the paths the handler's loop ranges over
    pathIdx,        \* the index of the path being processed
    fileIdx,        \* processFiles: the index of the next file of that path
    remote,         \* the commands and transfers sent over the ssh connection
    ret,            \* what the handler returned
    purgeExceptPattern, \* main.go: the --except pattern
    pdfFlags,       \* main.go: the --pdf-fontsize, --pdf-colorlinks, --pdf-highlight flags
    mdFlags,        \* main.go: the --md-header-adjust, --md-frontmatter, --md-cleanup flags
    device,         \* the names in the device directory c.Dir and what they hold
    uuids,          \* the number of ids uuid.New has generated
    listed,         \* the files ListFiles returned
    call,           \* the Client method last called directly, and its outcome
    tpc,            \* TransferFile: the position of the calling goroutine
    gpc,            \* TransferFile: the position of the copy goroutine
    done,           \* TransferFile: the done channel, its capacity and its buffer
    fileSize,       \* TransferFile: stat.Size(), in chunks
    copied,         \* TransferFile: the chunks io.Copy has written
    copyErr,        \* TransferFile: whether io.Copy returned an error
    timer,          \* TransferFile: the timer of time.After(TIMEOUT)
    tret,           \* TransferFile: what it returned
    scp,            \* TransferFile: whether the remote scp command was run
    closed          \* TransferFile: whether the session and the file are closed

renderVars == <<options, pdf, walkInCodeBlock, walked, open, cells>>

textVars == <<mdOptions, extractedText, pc, lines, pos, result, inCodeBlock, body, content>>

\* what the steps of a handler outside the Client leave alone
clientVars == <<device, uuids, listed, call>>

syncVars ==
    <<cmd, restartXochitl, args, obsidianVault, hpc, paths, pathIdx, fileIdx, remote, ret,
      purgeExceptPattern, pdfFlags, mdFlags, clientVars>>

transferVars == <<tpc, gpc, done, fileSize, copied, copyErr, timer, tret, scp, closed>>

\* what the text reconstruction leaves alone
otherThanText == <<renderVars, syncVars, transferVars>>
\* what the rendering leaves alone
otherThanRender == <<textVars, syncVars, transferVars>>
\* what the command handlers and the Client methods leave alone
otherThanSync == <<textVars, renderVars, transferVars>>
\* what TransferFile leaves alone
otherThanTransfer == <<textVars, renderVars, syncVars>>

----------------------------------------------------------------------------
(* Go's strings package, on sequences of characters *)

NL == "\n"
\* the grave accent U+0060, which a TLA+ string cannot hold
BQ == "BQ"
\* the fence marker of line 221: three grave accents
Fence == <<BQ, BQ, BQ>>
Digits == {"0", "1", "2", "3", "4", "5", "6", "7", "8", "9"}
\* the form feed U+000C
FF == "\f"
\* characters a TLA+ string cannot hold: the vertical tab U+000B, the next
\* line U+0085, the no-break space U+00A0
VT == "U+000B"
NEL == "U+0085"
NBSP == "U+00A0"
\* the white space of Unicode above Latin-1 (category Z and property
\* Pattern_White_Space)
WideSpace ==
    {"U+1680", "U+2000", "U+2001", "U+2002", "U+2003", "U+2004", "U+2005",
     "U+2006", "U+2007", "U+2008", "U+2009", "U+200A", "U+2028", "U+2029",
     "U+202F", "U+205F", "U+3000"}
\* unicode.IsSpace
Space == {"\t", NL, VT, FF, "\r", " ", NEL, NBSP} \cup WideSpace
\* \s of Go's regexp (RE2): [\t\n\f\r ]
RegexSpace == {"\t", NL, FF, "\r", " "}

RECURSIVE TrimLeftSet(_, _)
TrimLeftSet(s, cutset) ==
    IF s # <<>> /\ Head(s) \in cutset THEN TrimLeftSet(Tail(s), cutset) ELSE s

RECURSIVE TrimRightSet(_, _)
TrimRightSet(s, cutset) ==
    IF s # <<>> /\ s[Len(s)] \in cutset
    THEN TrimRightSet(SubSeq(s, 1, Len(s) - 1), cutset) ELSE s

TrimSpace(s) == TrimRightSet(TrimLeftSet(s, Space), Space)

TrimLeft(s, cutset) == TrimLeftSet(s, cutset)

HasPrefix(s, prefix) ==
    Len(s) >= Len(prefix) /\ SubSeq(s, 1, Len(prefix)) = prefix

\* strings.Count(s, substr) for a one-character substr
Count(s, c) == Cardinality({i \in 1..Len(s) : s[i] = c})

\* strings.Repeat(s, count) for a one-character s and count >= 0
\* (a negative count panics: see HeadingPanics)
Repeat(c, count) == [i \in 1..count |-> c]

\* strings.SplitN(s, sep, 2) for a one-character sep
SplitN2(s, sep) ==
    IF \E i \in 1..Len(s) : s[i] = sep
    THEN LET i == CHOOSE j \in 1..Len(s) : s[j] = sep /\ \A h \in 1..(j - 1) : s[h] # sep
         IN  <<SubSeq(s, 1, i - 1), SubSeq(s, i + 1, Len(s))>>
    ELSE <<s>>

\* strings.Split(s, "\n"): always at least one element
RECURSIVE Split(_, _)
Split(s, sep) ==
    IF \E i \in 1..Len(s) : s[i] = sep
    THEN LET parts == SplitN2(s, sep)
         IN  <<parts[1]>> \o Split(parts[2], sep)
    ELSE <<s>>

\* strings.Join(elems, "\n")
RECURSIVE Join(_, _)
Join(elems, sep) ==
    IF elems = <<>> THEN <<>>
    ELSE IF Len(elems) = 1 THEN elems[1]
    ELSE elems[1] \o <<sep>> \o Join(Tail(elems), sep)

\* regexp.MustCompile(^\d+\.\s).MatchString(line)
MatchNumbered(line) ==
    \E n \in 1..Len(line) :
        /\ n + 2 <= Len(line)
        /\ \A i \in 1..n : line[i] \in Digits
        /\ line[n + 1] = "."
        /\ line[n + 2] \in RegexSpace

----------------------------------------------------------------------------
(* Converter.cleanupMarkdownText: the body of the range loop, lines 214-238 *)

\* line 217: a second empty line after an empty result line is dropped
IsRepeatedBlank(res, line) ==
    line = <<>> /\ Len(res) > 0 /\ res[Len(res)] = <<>>

\* the fence test as an exact comparison
IsFenceLineExact(line) == line = Fence

\* line 221: strings.HasPrefix(line, the fence marker)
IsFenceLine(line) == HasPrefix(line, Fence)

\* line 225: strings.HasPrefix(line, "#")
IsHeadingLine(line) == HasPrefix(line, <<"#">>)

\* line 228: strings.HasPrefix(line, "* ") || strings.HasPrefix(line, "- ")
IsBulletLine(line) == HasPrefix(line, <<"*", " ">>) \/ HasPrefix(line, <<"-", " ">>)

\* line 226: headerLevel := strings.Count(line, "#") + c.mdOptions.HeaderLevelAdjust
headerLevel(line, adjust) == Count(line, "#") + adjust

\* line 227: strings.Repeat panics on a negative count
HeadingPanics(line, adjust) == headerLevel(line, adjust) < 0

\* line 227
rewriteHeading(line, adjust) ==
    Repeat("#", headerLevel(line, adjust)) \o <<" ">> \o TrimSpace(TrimLeft(line, {"#"}))

\* line 229
rewriteBullet(line) == <<"-", " ">> \o TrimSpace(SubSeq(line, 3, Len(line)))

\* lines 231-233
rewriteNumbered(line) ==
    LET parts == SplitN2(line, ".")
    IN  IF Len(parts) = 2 THEN parts[1] \o <<".">> \o TrimSpace(parts[2]) ELSE line

\* lines 224-234: the switch taken outside a code block
rewriteLine(line, adjust) ==
    IF IsHeadingLine(line) THEN rewriteHeading(line, adjust)
    ELSE IF IsBulletLine(line) THEN rewriteBullet(line)
    ELSE IF MatchNumbered(line) THEN rewriteNumbered(line)
    ELSE line

\* lines 214-238: one iteration, on the loop's state
\* st = [result, inCodeBlock, panicked]
cleanupLine(st, raw, adjust) ==
    LET line == TrimSpace(raw)
    IN  IF st.panicked THEN st
        ELSE IF IsRepeatedBlank(st.result, line) THEN st
        ELSE IF IsFenceLine(line)
             THEN [st EXCEPT !.inCodeBlock = ~@, !.result = Append(@, line)]
        ELSE IF ~st.inCodeBlock
             THEN IF IsHeadingLine(line) /\ HeadingPanics(line, adjust)
                  THEN [st EXCEPT !.panicked = TRUE]
                  ELSE [st EXCEPT !.result = Append(@, rewriteLine(line, adjust))]
        ELSE [st EXCEPT !.result = Append(@, line)]

RECURSIVE cleanupLoop(_, _, _)
cleanupLoop(st, ls, adjust) ==
    IF ls = <<>> THEN st
    ELSE cleanupLoop(cleanupLine(st, Head(ls), adjust), Tail(ls), adjust)

\* lines 209-241 as a function: [panicked, out]
cleanupMarkdownText(text, adjust) ==
    LET st == cleanupLoop([result |-> <<>>, inCodeBlock |-> FALSE, panicked |-> FALSE],
                          Split(text, NL), adjust)
    IN  [panicked |-> st.panicked, out |-> Join(st.result, NL)]

----------------------------------------------------------------------------
(* The inputs of the text reconstruction *)

MaxLineLen == 4
MaxLines == 3
MaxLevel == 6
MaxAdjust == 2

SeqsUpTo(S, n) == UNION {[1..m -> S] : m \in 0..n}

Alphabet == {"#", " ", "-", "1", ".", BQ, "a"}

\* every line of at most MaxLineLen characters
ShortLines == SeqsUpTo(Alphabet, MaxLineLen)

\* a heading of every level, with and without the space after the run
HeadingLines ==
    {Repeat("#", n) \o t : n \in 1..MaxLevel, t \in {<<" ", "a">>, <<"a">>}}

\* the lines that texts of several lines are made of
CoreLines ==
    { <<>>, <<" ">>, <<"a">>,
      Fence, Fence \o <<"a">>,
      <<"#">>, <<"#", " ", "a">>,
      <<" ", "-", " ", "a">>, <<"*", " ", "a">>,
      <<"1", ".", " ", " ", "a">> }

\* lines with the white space that text extracted from pdf pages holds
SpacedLines ==
    { <<FF>>, <<NBSP>>, <<FF, "a", FF>>, <<VT, "#", " ", "a">>,
      <<"1", ".", FF, "a">>, <<"1", ".", NBSP, "a">>, <<"U+2003", "-", " ", "a">> }

SpacedTexts ==
    {Join(ls, NL) : ls \in SeqsUpTo(SpacedLines \cup {<<>>, <<"a">>}, 2) \ {<<>>}}

Texts ==
    ShortLines \cup HeadingLines
    \cup {Join(ls, NL) : ls \in SeqsUpTo(CoreLines, MaxLines) \ {<<>>}}
    \cup SpacedTexts

AdjustRange == (0 - MaxAdjust)..MaxAdjust

\* lines 258-259: the frontmatter block, its title and date left abstract
Frontmatter == <<"---\ntitle: T\nsource: remarkable\ndate: D\n---\n\n">>

----------------------------------------------------------------------------
(* Converter.PDFToMarkdown from line 275, with cleanupMarkdownText inlined  *)

TextInit ==
    /\ mdOptions \in [HeaderLevelAdjust : AdjustRange,
                      AddFrontmatter : BOOLEAN, CleanupText : BOOLEAN]
    /\ extractedText \in Texts
    /\ pc = "extracted"
    /\ lines = <<>>
    /\ pos = 1
    /\ result = <<>>
    /\ inCodeBlock = FALSE
    /\ body = <<>>
    /\ content = <<>>

\* lines 278-279, 210-212: cleanup is enabled, the text is split
BeginCleanup ==
    /\ pc = "extracted"
    /\ mdOptions.CleanupText
    /\ lines' = Split(extractedText, NL)
    /\ pos' = 1
    /\ result' = <<>>
    /\ inCodeBlock' = FALSE
    /\ pc' = "loop"
    /\ UNCHANGED otherThanText
    /\ UNCHANGED <<mdOptions, extractedText, body, content>>

\* every line of a text trimmed, nothing else changed
TrimLines(text) ==
    LET ls == Split(text, NL)
    IN  Join([i \in 1..Len(ls) |-> TrimSpace(ls[i])], NL)

\* cleanup disabled, but each line still trimmed
SkipCleanupTrimmed ==
    /\ pc = "extracted"
    /\ ~mdOptions.CleanupText
    /\ body' = TrimLines(extractedText)
    /\ pc' = "write"
    /\ UNCHANGED otherThanText
    /\ UNCHANGED <<mdOptions, extractedText, lines, pos, result, inCodeBlock, content>>

\* line 278: cleanup is disabled, the text is written as extracted
SkipCleanup ==
    /\ pc = "extracted"
    /\ ~mdOptions.CleanupText
    /\ body' = extractedText
    /\ pc' = "write"
    /\ UNCHANGED otherThanText
    /\ UNCHANGED <<mdOptions, extractedText, lines, pos, result, inCodeBlock, content>>

\* lines 214-238: one iteration of the range loop
CleanupLine ==
    /\ pc = "loop"
    /\ pos <= Len(lines)
    /\ LET st == cleanupLine([result |-> result, inCodeBlock |-> inCodeBlock,
                              panicked |-> FALSE],
                             lines[pos], mdOptions.HeaderLevelAdjust)
       IN  /\ result' = st.result
           /\ inCodeBlock' = st.inCodeBlock
           /\ pc' = IF st.panicked THEN "panic" ELSE "loop"
           /\ pos' = IF st.panicked THEN pos ELSE pos + 1
    /\ UNCHANGED otherThanText
    /\ UNCHANGED <<mdOptions, extractedText, lines, body, content>>

\* line 240: the loop is over, the result is joined
EndCleanup ==
    /\ pc = "loop"
    /\ pos > Len(lines)
    /\ body' = Join(result, NL)
    /\ pc' = "write"
    /\ UNCHANGED otherThanText
    /\ UNCHANGED <<mdOptions, extractedText, lines, pos, result, inCodeBlock, content>>

\* lines 257-261, 282-289: frontmatter, then the text, written to the file
WriteMarkdown ==
    /\ pc = "write"
    /\ content' = (IF mdOptions.AddFrontmatter THEN Frontmatter ELSE <<>>) \o body
    /\ pc' = "done"
    /\ UNCHANGED otherThanText
    /\ UNCHANGED <<mdOptions, extractedText, lines, pos, result, inCodeBlock, body>>

TextNext == BeginCleanup \/ SkipCleanup \/ CleanupLine \/ EndCleanup \/ WriteMarkdown

vars == <<textVars, renderVars, syncVars, transferVars>>

\* the text reconstruction does not run
TextIdle ==
    /\ mdOptions = [HeaderLevelAdjust |-> 1, AddFrontmatter |-> TRUE, CleanupText |-> TRUE]
    /\ extractedText = <<>>
    /\ pc = "idle"
    /\ lines = <<>>
    /\ pos = 1
    /\ result = <<>>
    /\ inCodeBlock = FALSE
    /\ body = <<>>
    /\ content = <<>>

----------------------------------------------------------------------------
(* Converter.processMarkdown, lines 117-165: ast.WalkFunc calls the callback *)
(* on entering every node of the parsed document, in document order, and on *)
(* leaving every container. The vertical position that pdf.Ln moves is not  *)
(* part of the state.                                                       *)

MaxNodes == 7

DefaultColor == <<0, 0, 0>>
\* line 152
LinkColor == <<0, 0, 255>>
\* line 145
CodeFill == <<245, 245, 245>>
DefaultFill == <<0, 0, 0>>

\* base font sizes: the default of line 35 and two others
FontSizes == {9, 11, 14}

\* the tree the parser of line 119 builds: what a container holds
ChildKinds(parent) ==
    CASE parent = "Document" -> {"Heading", "Paragraph", "List", "CodeBlock"}
      [] parent \in {"Heading", "Paragraph"} -> {"Text", "Link"}
      [] parent = "Link" -> {"Text"}
      [] parent = "List" -> {"ListItem"}
      [] parent = "ListItem" -> {"Paragraph", "List", "CodeBlock"}

\* line 131 with the base font size in place of the literal
HeadingFontSizeFromBase(level) == options.FontSize + (7 - level)

\* line 131: 16-float64(n.Level)
HeadingFontSize(level) == 16 - level

SetFont(family, style, size) ==
    [pdf EXCEPT !.fontFamily = family, !.fontStyle = style, !.fontSize = size]

\* what pdf.MultiCell / pdf.Write draws with
Cell(txt, doc, fill) ==
    [text |-> txt, fontFamily |-> doc.fontFamily, fontStyle |-> doc.fontStyle,
     fontSize |-> doc.fontSize, color |-> doc.textColor, filled |-> fill,
     at |-> Len(walked) + 1]

\* Converter.options, and the state after line 122
RenderInit ==
    /\ options \in [FontSize : FontSizes, ColorLinks : BOOLEAN, Highlight : BOOLEAN]
    /\ pdf = [fontFamily |-> "Main", fontStyle |-> "", fontSize |-> options.FontSize,
              textColor |-> DefaultColor, fillColor |-> DefaultFill]
    /\ walkInCodeBlock = FALSE
    /\ walked = <<>>
    /\ open = <<>>
    /\ cells = <<>>

RenderIdle ==
    /\ options = [FontSize |-> 11, ColorLinks |-> TRUE, Highlight |-> TRUE]
    /\ pdf = [fontFamily |-> "Main", fontStyle |-> "", fontSize |-> 11,
              textColor |-> DefaultColor, fillColor |-> DefaultFill]
    /\ walkInCodeBlock = FALSE
    /\ walked = <<>>
    /\ open = <<>>
    /\ cells = <<>>

Node(kind, level) == [kind |-> kind, level |-> level, entering |-> TRUE]

\* the walk reaches a child of the innermost open container
Enter(kind, level, container) ==
    /\ Len(walked) < MaxNodes
    /\ open # <<>>
    /\ kind \in ChildKinds(open[Len(open)])
    /\ walked' = Append(walked, Node(kind, level))
    /\ open' = IF container THEN Append(open, kind) ELSE open
    /\ UNCHANGED <<options, otherThanRender>>

\* line 129: the root, a type without a case
EnterDocument ==
    /\ walked = <<>>
    /\ walked' = <<Node("Document", 0)>>
    /\ open' = <<"Document">>
    /\ UNCHANGED <<options, pdf, walkInCodeBlock, cells, otherThanRender>>

\* lines 125-127: a container is left
LeaveNode ==
    /\ Len(walked) < MaxNodes
    /\ open # <<>>
    /\ walked' = Append(walked, [kind |-> open[Len(open)], level |-> 0, entering |-> FALSE])
    /\ open' = SubSeq(open, 1, Len(open) - 1)
    /\ UNCHANGED <<options, pdf, walkInCodeBlock, cells, otherThanRender>>

\* lines 130-132
EnterHeading ==
    \E level \in 1..MaxLevel :
        /\ Enter("Heading", level, TRUE)
        /\ pdf' = SetFont("Main", "B", HeadingFontSize(level))
        /\ UNCHANGED <<walkInCodeBlock, cells>>

\* lines 133-140
EnterText ==
    /\ Enter("Text", 0, FALSE)
    /\ LET drawn == IF walkInCodeBlock THEN SetFont("Mono", "", options.FontSize) ELSE pdf
       IN  /\ cells' = Append(cells, Cell("text", drawn, walkInCodeBlock /\ options.Highlight))
           /\ pdf' = IF walkInCodeBlock
                     THEN [drawn EXCEPT !.fontFamily = "Main", !.fontStyle = "",
                                        !.fontSize = options.FontSize]
                     ELSE drawn
    /\ UNCHANGED walkInCodeBlock

\* lines 141-149
EnterCodeBlock ==
    /\ Enter("CodeBlock", 0, FALSE)
    /\ LET mono == SetFont("Mono", "", options.FontSize)
           drawn == IF options.Highlight THEN [mono EXCEPT !.fillColor = CodeFill] ELSE mono
       IN  /\ cells' = Append(cells, Cell("code", drawn, options.Highlight))
           /\ pdf' = [drawn EXCEPT !.fontFamily = "Main", !.fontStyle = "",
                                   !.fontSize = options.FontSize]
    /\ walkInCodeBlock' = FALSE

\* lines 150-153
EnterLink ==
    /\ Enter("Link", 0, TRUE)
    /\ pdf' = IF options.ColorLinks THEN [pdf EXCEPT !.textColor = LinkColor] ELSE pdf
    /\ UNCHANGED <<walkInCodeBlock, cells>>

\* lines 154-155
EnterParagraph ==
    /\ Enter("Paragraph", 0, TRUE)
    /\ UNCHANGED <<pdf, walkInCodeBlock, cells>>

\* lines 156-157
EnterList ==
    /\ Enter("List", 0, TRUE)
    /\ UNCHANGED <<pdf, walkInCodeBlock, cells>>

\* lines 158-159
EnterListItem ==
    /\ Enter("ListItem", 0, TRUE)
    /\ cells' = Append(cells, Cell("bullet", pdf, FALSE))
    /\ UNCHANGED <<pdf, walkInCodeBlock>>

RenderNext ==
    \/ EnterDocument \/ LeaveNode
    \/ EnterHeading \/ EnterText \/ EnterCodeBlock \/ EnterLink
    \/ EnterParagraph \/ EnterList \/ EnterListItem

----------------
(* cmd/remarkable-sync/main.go: toRemarkableHandler and obsidianHandler.    *)
(* A path is what os.Stat and filepath.Walk find there: nothing, a file, or *)
(* a directory with its files in walk order; a file is its extension.       *)

MaxPaths == 2
MaxFiles == 3

Exts == {"pdf", "md"}

MissingPath == [kind |-> "missing", files |-> <<>>]

PathChoices ==
    {MissingPath}
    \cup {[kind |-> "file", files |-> <<e>>] : e \in Exts}
    \cup {[kind |-> "dir", files |-> fs] : fs \in SeqsUpTo(Exts, MaxFiles)}

RECURSIVE TotalFiles(_)
TotalFiles(ps) == IF ps = <<>> THEN 0 ELSE Len(Head(ps).files) + TotalFiles(Tail(ps))

ArgLists == {a \in SeqsUpTo(PathChoices, MaxPaths) : TotalFiles(a) <= MaxFiles}

StopCmd == "systemctl stop xochitl"
RestartCmd == "systemctl restart xochitl"

Sent(op, ok) == [op |-> op, ok |-> ok]

\* Client.UploadFile, part_001 lines 193-268, by the step that fails:
\* 0 a local step before the transfers, 1..3 that transfer, 4..6 that mkdir,
\* 7 none. What it sent, and whether it returned an error.
UploadOutcomes == 0..7
UploadFile(failAt) ==
    [sent |->
        [i \in 1..(IF failAt > 3 THEN 3 ELSE failAt) |-> Sent("transfer", i # failAt)]
        \o [i \in 1..(IF failAt <= 3 THEN 0 ELSE IF failAt = 7 THEN 3 ELSE failAt - 3) |->
               Sent("mkdir", i + 3 # failAt)],
     err |-> failAt # 7,
     called |-> TRUE]

\* the callback returns without calling UploadFile
NoUpload(err) == [sent |-> <<>>, err |-> err, called |-> FALSE]

----------------------------------------------------------------------------
(* remarkable.Client on the device directory c.Dir (part_001 lines 193-353). *)
(* The directory is a function from the names it holds to what each holds:   *)
(* a file with its content (kept for the .metadata files only) or a          *)
(* directory. A name, like a content, is a sequence of characters; a path    *)
(* is the name, c.Dir being the same everywhere.                             *)

\* the elements of a sequence
Range(seq) == {seq[i] : i \in 1..Len(seq)}

File(bytes) == [kind |-> "file", content |-> bytes]
Dir == [kind |-> "dir", content |-> <<>>]

\* lines 200-205, 230: json.Marshal(metadata) for a visible name of letters,
\* up to the name and after it; time.Now is taken to be 1700000000
JsonHead ==
    <<"{", "\"", "l", "a", "s", "t", "M", "o", "d", "i", "f", "i",
      "e", "d", "\"", ":", "\"", "1", "7", "0", "0", "0", "0", "0",
      "0", "0", "0", "0", "0", "0", "\"", ",", "\"", "t", "y", "p",
      "e", "\"", ":", "\"", "D", "o", "c", "u", "m", "e", "n", "t",
      "T", "y", "p", "e", "\"", ",", "\"", "v", "e", "r", "s", "i",
      "o", "n", "\"", ":", "1", ",", "\"", "v", "i", "s", "i", "b",
      "l", "e", "N", "a", "m", "e", "\"", ":", "\"">>
JsonTail == <<"\"", "}">>

MetadataJSON(visibleName) == JsonHead \o visibleName \o JsonTail

\* s[i..] begins with prefix
HasPrefixAt(s, i, prefix) ==
    /\ i + Len(prefix) - 1 <= Len(s)
    /\ SubSeq(s, i, i + Len(prefix) - 1) = prefix

\* strings.Contains, as the unanchored search of a regexp that is a literal
Contains(s, substr) == \E i \in 1..(Len(s) + 1) : HasPrefixAt(s, i, substr)

\* line 294: the regexp "visibleName":\s*"([^"]+)" up to its \s*
VisibleNameKey ==
    <<"\"", "v", "i", "s", "i", "b", "l", "e", "N", "a", "m", "e",
      "\"", ":">>

\* the index of the first character from i on that is not in set
RECURSIVE SkipSet(_, _, _)
SkipSet(s, i, set) ==
    IF i <= Len(s) /\ s[i] \in set THEN SkipSet(s, i + 1, set) ELSE i

\* the match of the regexp of line 294 that begins at i, if there is one:
\* the key, white space, a quote, characters other than a quote, a quote
SubmatchAt(s, i) ==
    LET q == SkipSet(s, i + Len(VisibleNameKey), RegexSpace)
        from == q + 1
        to == SkipSet(s, from, {c \in Range(s) : c # "\""})
    IN  IF /\ HasPrefixAt(s, i, VisibleNameKey)
           /\ q <= Len(s) /\ s[q] = "\""
           /\ to > from /\ to <= Len(s)
        THEN [found |-> TRUE, name |-> SubSeq(s, from, to - 1)]
        ELSE [found |-> FALSE, name |-> <<>>]

\* line 294: FindStringSubmatch, the leftmost match
FindStringSubmatch(s) ==
    LET at == {i \in 1..Len(s) : SubmatchAt(s, i).found}
    IN  IF at = {} THEN [found |-> FALSE, name |-> <<>>]
        ELSE SubmatchAt(s, CHOOSE i \in at : \A j \in at : i <= j)

DotMetadata == <<".", "m", "e", "t", "a", "d", "a", "t", "a">>
DotContent == <<".", "c", "o", "n", "t", "e", "n", "t">>
DotPdf == <<".", "p", "d", "f">>
DotThumbnails == <<".", "t", "h", "u", "m", "b", "n", "a", "i", "l", "s">>
DotHighlights == <<".", "h", "i", "g", "h", "l", "i", "g", "h", "t", "s">>
DotCache == <<".", "c", "a", "c", "h", "e">>

\* lines 158-161: the FileType constants
PDF == <<"p", "d", "f">>
EPUB == <<"e", "p", "u", "b">>

HasSuffix(s, suffix) ==
    /\ Len(s) >= Len(suffix)
    /\ SubSeq(s, Len(s) - Len(suffix) + 1, Len(s)) = suffix

TrimSuffix(s, suffix) ==
    IF HasSuffix(s, suffix) THEN SubSeq(s, 1, Len(s) - Len(suffix)) ELSE s

\* the order in which ls prints names: byte by byte
Letters == <<"a", "b", "c", "d", "e", "f", "g", "h", "i", "j", "k", "l", "m",
             "n", "o", "p", "q", "r", "s", "t", "u", "v", "w", "x", "y", "z">>
Ord(c) ==
    IF c = "-" THEN 45
    ELSE IF c = "." THEN 46
    ELSE 96 + (CHOOSE i \in 1..Len(Letters) : Letters[i] = c)

RECURSIVE Less(_, _)
Less(s, t) ==
    IF s = <<>> THEN t # <<>>
    ELSE IF t = <<>> THEN FALSE
    ELSE IF Head(s) # Head(t) THEN Ord(Head(s)) < Ord(Head(t))
    ELSE Less(Tail(s), Tail(t))

RECURSIVE SortNames(_)
SortNames(S) ==
    IF S = {} THEN <<>>
    ELSE LET m == CHOOSE x \in S : \A y \in S \ {x} : Less(x, y)
         IN  <<m>> \o SortNames(S \ {m})

\* lines 272, 327: the output of ls c.Dir/*.metadata, split into lines
LsMetadata(dev) == SortNames({n \in DOMAIN dev : HasSuffix(n, DotMetadata)})

\* uuid.New().String(), line 194: the n-th id generated; the ids are distinct
\* and, having one length, none is a prefix of another
NewUUID(n) == Repeat("u", n) \o <<"-">>

\* line 196: the file type, from the extension of the local path
FileTypeOf(ext) == IF ext = "epub" THEN EPUB ELSE PDF

\* lines 248-254: the three destinations, in the order transferred
UploadTargets(id, visibleName, fileType) ==
    << [name |-> id \o fileType, data |-> File(<<>>)],
       [name |-> id \o DotMetadata, data |-> File(MetadataJSON(visibleName))],
       [name |-> id \o DotContent, data |-> File(<<>>)],
       [name |-> id \o DotThumbnails, data |-> Dir],
       [name |-> id \o DotHighlights, data |-> Dir],
       [name |-> id \o DotCache, data |-> Dir] >>

\* lines 247-265: the device directory after UploadFile whose step failAt
\* failed (UploadOutcomes above): the steps before it have been done
Uploaded(dev, id, visibleName, fileType, failAt) ==
    LET targets == UploadTargets(id, visibleName, fileType)
        made == {i \in 1..6 : i < failAt}
        fresh == {targets[i].name : i \in made}
    IN  [n \in DOMAIN dev \cup fresh |->
            IF n \in fresh
            THEN targets[CHOOSE i \in made : targets[i].name = n].data
            ELSE dev[n]]

\* lines 317-323: rm -rf c.Dir/uuid*, every name that begins with uuid
RemoveFile(dev, uuid) ==
    [n \in {m \in DOMAIN dev : ~HasPrefix(m, uuid)} |-> dev[n]]

\* line 340: regexp.MatchString(pattern, content) for a pattern that is an
\* alternation of literals, given as the set of them: one of them is found
\* somewhere in the content
Matched(pattern, bytes) == \E literal \in pattern : Contains(bytes, literal)

\* lines 334-350: the loop of CleanupExcept over the lines of the listing;
\* fault is the number of the RunCommand whose session fails (0: none)
RECURSIVE CleanupExceptLoop(_, _, _, _)
CleanupExceptLoop(st, listing, pattern, fault) ==
    IF listing = <<>> THEN st
    ELSE LET metadataPath == Head(listing)
             catOk == /\ Len(st.sent) + 1 # fault
                      /\ metadataPath \in DOMAIN st.device
                      /\ st.device[metadataPath].kind = "file"
             st1 == [st EXCEPT !.sent = Append(@, Sent("cat", catOk))]
             uuid == TrimSuffix(metadataPath, DotMetadata)
             rmOk == Len(st1.sent) + 1 # fault
         IN  IF ~catOk
             THEN CleanupExceptLoop(st1, Tail(listing), pattern, fault)
             ELSE IF Matched(pattern, st.device[metadataPath].content)
             THEN CleanupExceptLoop(st1, Tail(listing), pattern, fault)
             ELSE IF ~rmOk
             THEN [st1 EXCEPT !.sent = Append(@, Sent("rm", FALSE)), !.err = TRUE]
             ELSE CleanupExceptLoop(
                      [st1 EXCEPT !.sent = Append(@, Sent("rm", TRUE)),
                                  !.device = RemoveFile(@, uuid)],
                      Tail(listing), pattern, fault)

\* lines 325-353
CleanupExcept(dev, pattern, fault) ==
    LET listing == LsMetadata(dev)
        lsOk == fault # 1 /\ listing # <<>>
    IN  IF ~lsOk
        THEN [device |-> dev, sent |-> <<Sent("ls", FALSE)>>, err |-> TRUE]
        ELSE CleanupExceptLoop(
                 [device |-> dev, sent |-> <<Sent("ls", TRUE)>>, err |-> FALSE],
                 listing, pattern, fault)

\* lines 278-297: the loop of ListFiles over the lines of the listing
RECURSIVE ListFilesLoop(_, _, _, _)
ListFilesLoop(st, listing, dev, fault) ==
    IF listing = <<>> THEN st
    ELSE LET metadataPath == Head(listing)
             uuid == TrimSuffix(metadataPath, DotMetadata)
             testOk == /\ Len(st.sent) + 1 # fault
                       /\ (uuid \o DotPdf) \in DOMAIN dev
                       /\ dev[uuid \o DotPdf].kind = "file"
             st1 == [st EXCEPT !.sent = Append(@, Sent("test", testOk))]
             catOk == /\ Len(st1.sent) + 1 # fault
                      /\ dev[metadataPath].kind = "file"
             st2 == [st1 EXCEPT !.sent = Append(@, Sent("cat", catOk))]
             matches == FindStringSubmatch(dev[metadataPath].content)
         IN  IF ~testOk
             THEN ListFilesLoop(st1, Tail(listing), dev, fault)
             ELSE IF ~catOk \/ ~matches.found
             THEN ListFilesLoop(st2, Tail(listing), dev, fault)
             ELSE ListFilesLoop([st2 EXCEPT !.files = Append(@, matches.name)],
                                Tail(listing), dev, fault)

\* lines 270-300
ListFiles(dev, fault) ==
    LET listing == LsMetadata(dev)
        lsOk == fault # 1 /\ listing # <<>>
    IN  IF ~lsOk
        THEN [files |-> <<>>, sent |-> <<Sent("ls", FALSE)>>, err |-> TRUE]
        ELSE ListFilesLoop(
                 [files |-> <<>>, sent |-> <<Sent("ls", TRUE)>>, err |-> FALSE],
                 listing, dev, fault)

----------------------------------------------------------------------------
(* cmd/remarkable-sync/main.go: the handlers, continued *)

\* lines 350-353
isSupported(ext) == ext \in {"pdf", "epub"}

\* lines 154-159: the callback of toRemarkableHandler
uploadIfSupported(ext, failAt) ==
    IF ~isSupported(ext) THEN NoUpload(TRUE) ELSE UploadFile(failAt)

\* lines 282-287 and 361-377: the callback of obsidianHandler; converted tells
\* whether MarkdownToPDF returned a pdf
convertAndUpload(ext, converted, failAt) ==
    IF ext # "md" THEN NoUpload(FALSE)
    ELSE IF ~converted THEN NoUpload(TRUE)
    ELSE UploadFile(failAt)

\* the flags and arguments of the command line, which no handler assigns
flags ==
    <<cmd, restartXochitl, args, obsidianVault, purgeExceptPattern, pdfFlags, mdFlags>>

\* lines 61-68: the defaults of the pdf flags
DefaultPdfFlags == [pdfFontSize |-> 11, pdfColorLinks |-> TRUE, pdfHighlight |-> TRUE]

\* lines 71-73: the defaults of the markdown flags
DefaultMdFlags == [mdHeaderAdjust |-> 1, mdFrontmatter |-> TRUE, mdCleanupText |-> TRUE]

\* the pdf flags given to obsidian: the defaults, or every one of them set
PdfFlagChoices ==
    {DefaultPdfFlags, [pdfFontSize |-> 14, pdfColorLinks |-> FALSE, pdfHighlight |-> FALSE]}

\* the markdown flags given to from-remarkable: the defaults, or the header
\* adjustment set to the lowest of AdjustRange
MdFlagChoices ==
    {DefaultMdFlags,
     [mdHeaderAdjust |-> 0 - MaxAdjust, mdFrontmatter |-> TRUE, mdCleanupText |-> TRUE]}

\* lines 76-87
getPDFOptions ==
    [FontSize |-> pdfFlags.pdfFontSize, ColorLinks |-> pdfFlags.pdfColorLinks,
     Highlight |-> pdfFlags.pdfHighlight]

\* lines 89-95
getMarkdownOptions ==
    [HeaderLevelAdjust |-> mdFlags.mdHeaderAdjust,
     AddFrontmatter |-> mdFlags.mdFrontmatter,
     CleanupText |-> mdFlags.mdCleanupText]

MaxDocs == 2

\* the visible names of the documents
VisibleNames == {<<"A">>, <<"A", "B">>}

\* the --except patterns, each the set of the literals it is an alternation
\* of: A, B, A|B, and type, which is found in every metadata file
Patterns ==
    {{<<"A">>}, {<<"B">>}, {<<"A">>, <<"B">>}, {<<"t", "y", "p", "e">>}}

\* --except "" (line 315)
NoPattern == {}

\* the ids of the documents a device directory starts with; one is a prefix
\* of another
DeviceIds == {<<"a">>, <<"a", "b">>, <<"b">>}

EmptyDir == <<>>

\* a document of the device: its .metadata with a visible name, with or
\* without its .pdf
DocChoices == {[visibleName |-> v, pdf |-> p] : v \in VisibleNames, p \in BOOLEAN}

DeviceOf(docs) ==
    LET names == {id \o DotMetadata : id \in DOMAIN docs}
                 \cup {id \o DotPdf : id \in {d \in DOMAIN docs : docs[d].pdf}}
    IN  [n \in names |->
            IF HasSuffix(n, DotMetadata)
            THEN File(MetadataJSON(docs[TrimSuffix(n, DotMetadata)].visibleName))
            ELSE File(<<>>)]

Devices ==
    {DeviceOf(docs) :
        docs \in UNION {[ids -> DocChoices] :
                            ids \in {I \in SUBSET DeviceIds : Cardinality(I) <= MaxDocs}}}

\* the RunCommand of a Client method whose session fails: none, or one of those
\* the method can issue on this directory
Faults(dev) == 0..(1 + 2 * Len(LsMetadata(dev)))

\* no Client method has been called directly
NoCall ==
    [op |-> "none", name |-> <<>>, fileType |-> <<>>, pattern |-> {},
     fault |-> 0, err |-> FALSE, n |-> 0]

\* the base name, without extension, of the local files given to the handlers
LocalName == <<"A">>

UploadCmds == {"to-remarkable", "obsidian"}

SyncInit ==
    /\ cmd \in UploadCmds \cup {"from-remarkable", "cleanup"}
    /\ restartXochitl \in BOOLEAN
    /\ args \in IF cmd \in UploadCmds THEN ArgLists ELSE {<<>>}
    /\ obsidianVault \in IF cmd = "obsidian" /\ args = <<>> THEN PathChoices ELSE {MissingPath}
    /\ purgeExceptPattern \in IF cmd = "cleanup" THEN Patterns \cup {NoPattern} ELSE {NoPattern}
    /\ pdfFlags \in IF cmd = "obsidian" THEN PdfFlagChoices ELSE {DefaultPdfFlags}
    /\ mdFlags \in IF cmd = "from-remarkable" THEN MdFlagChoices ELSE {DefaultMdFlags}
    /\ hpc = IF cmd = "cleanup" THEN "except" ELSE "connect"
    /\ paths = <<>>
    /\ pathIdx = 1
    /\ fileIdx = 1
    /\ remote = <<>>
    /\ ret = "running"
    /\ device \in IF cmd \in UploadCmds THEN {EmptyDir} ELSE Devices
    /\ uuids = 0
    /\ listed = <<>>
    /\ call = NoCall

\* no handler runs
HandlerIdle ==
    /\ cmd = "none"
    /\ restartXochitl = TRUE
    /\ args = <<>>
    /\ obsidianVault = MissingPath
    /\ purgeExceptPattern = NoPattern
    /\ pdfFlags = DefaultPdfFlags
    /\ mdFlags = DefaultMdFlags
    /\ hpc = "idle"
    /\ paths = <<>>
    /\ pathIdx = 1
    /\ fileIdx = 1
    /\ remote = <<>>
    /\ ret = "running"

SyncIdle ==
    /\ HandlerIdle
    /\ device = EmptyDir
    /\ uuids = 0
    /\ listed = <<>>
    /\ call = NoCall

Return(value) ==
    /\ hpc' = "returned"
    /\ ret' = value

\* lines 315-317: cleanup needs a pattern
CheckExcept ==
    /\ hpc = "except"
    /\ IF purgeExceptPattern = NoPattern
       THEN Return("error")
       ELSE /\ hpc' = "connect"
            /\ ret' = ret
    /\ UNCHANGED <<flags, paths, pathIdx, fileIdx, remote>>
    /\ UNCHANGED clientVars
    /\ UNCHANGED otherThanSync

\* lines 139-143, 186-190, 254-258, 319-323: remarkable.NewClient
NewClient ==
    /\ hpc = "connect"
    /\ \E ok \in BOOLEAN :
          IF ok
          THEN /\ hpc' = IF cmd \in {"obsidian", "from-remarkable"} THEN "converter" ELSE "stop"
               /\ ret' = ret
          ELSE Return("error")
    /\ UNCHANGED <<flags, paths, pathIdx, fileIdx, remote>>
    /\ UNCHANGED clientVars
    /\ UNCHANGED otherThanSync

\* lines 192-199, 260-266: convert.NewConverter, and the converter is given
\* the options of the flags: SetMarkdownOptions in from-remarkable (199,
\* part_000:83-85), SetOptions in obsidian (266, part_000:79-81)
NewConverter ==
    /\ hpc = "converter"
    /\ \E ok \in BOOLEAN :
          IF ok
          THEN /\ hpc' = IF cmd = "from-remarkable" THEN "inbox" ELSE "stop"
               /\ ret' = ret
               /\ mdOptions' = IF cmd = "from-remarkable" THEN getMarkdownOptions
                                ELSE mdOptions
               /\ options' = IF cmd = "obsidian" THEN getPDFOptions ELSE options
          ELSE /\ Return("error")
               /\ UNCHANGED <<mdOptions, options>>
    /\ UNCHANGED <<flags, paths, pathIdx, fileIdx, remote>>
    /\ UNCHANGED clientVars
    /\ UNCHANGED <<extractedText, pc, lines, pos, result, inCodeBlock, body, content>>
    /\ UNCHANGED <<pdf, walkInCodeBlock, walked, open, cells>>
    /\ UNCHANGED transferVars

\* lines 153, 276-279: the paths the loop ranges over
LoopPaths == IF cmd = "obsidian" /\ Len(args) = 0 THEN <<obsidianVault>> ELSE args

\* where the handler goes on after the stop: the loop over the paths, or
\* CleanupExcept (line 334)
AfterStop == IF cmd = "cleanup" THEN "cleanup" ELSE "paths"

\* the stop command with its error dropped
StopXochitlErrorIgnored ==
    /\ hpc = "stop"
    /\ restartXochitl
    /\ \E ok \in BOOLEAN :
          /\ remote' = Append(remote, Sent(StopCmd, ok))
          /\ hpc' = AfterStop
          /\ paths' = LoopPaths
          /\ ret' = ret
    /\ UNCHANGED <<flags, pathIdx, fileIdx>>
    /\ UNCHANGED clientVars
    /\ UNCHANGED otherThanSync

\* lines 145-150, 268-273, 326-331: restart enabled, the service is stopped first
StopXochitl ==
    /\ hpc = "stop"
    /\ restartXochitl
    /\ \E ok \in BOOLEAN :
          /\ remote' = Append(remote, Sent(StopCmd, ok))
          /\ IF ok
             THEN /\ hpc' = AfterStop
                  /\ paths' = LoopPaths
                  /\ ret' = ret
             ELSE /\ Return("error")
                  /\ paths' = paths
    /\ UNCHANGED <<flags, pathIdx, fileIdx>>
    /\ UNCHANGED clientVars
    /\ UNCHANGED otherThanSync

\* lines 145, 268, 326: restart disabled
SkipStop ==
    /\ hpc = "stop"
    /\ ~restartXochitl
    /\ hpc' = AfterStop
    /\ paths' = LoopPaths
    /\ UNCHANGED <<flags, pathIdx, fileIdx, remote, ret>>
    /\ UNCHANGED clientVars
    /\ UNCHANGED otherThanSync

InLoop == hpc = "paths" /\ pathIdx <= Len(paths)

\* lines 122-125, 160-162: os.Stat fails, the path is given up with a warning
StatFails ==
    /\ InLoop
    /\ paths[pathIdx].kind = "missing"
    /\ pathIdx' = pathIdx + 1
    /\ fileIdx' = 1
    /\ UNCHANGED <<flags, hpc, paths, remote, ret>>
    /\ UNCHANGED clientVars
    /\ UNCHANGED otherThanSync

\* lines 127-135: process is called on the next file of the path; an error ends
\* the walk of the path (lines 132, 160-162)
ProcessFile ==
    /\ InLoop
    /\ paths[pathIdx].kind # "missing"
    /\ fileIdx <= Len(paths[pathIdx].files)
    /\ \E converted \in BOOLEAN, failAt \in UploadOutcomes :
          LET ext == paths[pathIdx].files[fileIdx]
              \* lines 357, 371: the base name of the file without its extension
              visibleName == LocalName
              res == IF cmd = "obsidian"
                      THEN convertAndUpload(ext, converted, failAt)
                      ELSE uploadIfSupported(ext, failAt)
              \* lines 365, 372: obsidian uploads the pdf it converted to
              fileType == IF cmd = "obsidian" THEN PDF ELSE FileTypeOf(ext)
          IN  /\ remote' = remote \o res.sent
              /\ pathIdx' = IF res.err THEN pathIdx + 1 ELSE pathIdx
              /\ fileIdx' = IF res.err THEN 1 ELSE fileIdx + 1
              /\ uuids' = IF res.called THEN uuids + 1 ELSE uuids
              /\ device' = IF res.called
                           THEN Uploaded(device, NewUUID(uuids + 1), visibleName, fileType, failAt)
                           ELSE device
    /\ UNCHANGED <<flags, hpc, paths, ret, listed, call>>
    /\ UNCHANGED otherThanSync

\* lines 128-135: the walk of the path is over without an error
PathDone ==
    /\ InLoop
    /\ paths[pathIdx].kind # "missing"
    /\ fileIdx > Len(paths[pathIdx].files)
    /\ pathIdx' = pathIdx + 1
    /\ fileIdx' = 1
    /\ UNCHANGED <<flags, hpc, paths, remote, ret>>
    /\ UNCHANGED clientVars
    /\ UNCHANGED otherThanSync

\* lines 333-336: cleanup calls CleanupExcept and returns its error
Cleanup ==
    /\ hpc = "cleanup"
    /\ \E fault \in Faults(device) :
          LET res == CleanupExcept(device, purgeExceptPattern, fault)
          IN  /\ remote' = remote \o res.sent
              /\ device' = res.device
              /\ IF res.err
                 THEN Return("error")
                 ELSE /\ hpc' = "restart"
                      /\ ret' = ret
    /\ UNCHANGED <<flags, paths, pathIdx, fileIdx, uuids, listed, call>>
    /\ UNCHANGED otherThanSync

\* the handler has reached its restart block
AtRestart ==
    \/ hpc = "paths" /\ pathIdx > Len(paths)
    \/ hpc = "restart"

\* lines 165-172, 293-300, 339-346: restart enabled, the service is restarted
RestartXochitl ==
    /\ AtRestart
    /\ restartXochitl
    /\ \E ok \in BOOLEAN :
          /\ remote' = Append(remote, Sent(RestartCmd, ok))
          /\ Return(IF ok THEN "nil" ELSE "error")
    /\ UNCHANGED <<flags, paths, pathIdx, fileIdx>>
    /\ UNCHANGED clientVars
    /\ UNCHANGED otherThanSync

\* lines 165, 172, 293, 300, 339, 346: restart disabled
SkipRestart ==
    /\ AtRestart
    /\ ~restartXochitl
    /\ Return("nil")
    /\ UNCHANGED <<flags, paths, pathIdx, fileIdx, remote>>
    /\ UNCHANGED clientVars
    /\ UNCHANGED otherThanSync

\* lines 201-205: from-remarkable creates the inbox directory
MkdirInbox ==
    /\ hpc = "inbox"
    /\ \E ok \in BOOLEAN :
          IF ok
          THEN /\ hpc' = "list"
               /\ ret' = ret
          ELSE Return("error")
    /\ UNCHANGED <<flags, paths, pathIdx, fileIdx, remote>>
    /\ UNCHANGED clientVars
    /\ UNCHANGED otherThanSync

\* lines 207-211: from-remarkable lists the files of the device
ListDevice ==
    /\ hpc = "list"
    /\ \E fault \in Faults(device) :
          LET res == ListFiles(device, fault)
          IN  /\ remote' = remote \o res.sent
              /\ listed' = res.files
              /\ IF res.err
                 THEN Return("error")
                 ELSE /\ hpc' = "files"
                      /\ ret' = ret
    /\ fileIdx' = 1
    /\ UNCHANGED <<flags, paths, pathIdx, device, uuids, call>>
    /\ UNCHANGED otherThanSync

\* lines 213-237, one iteration, by where it ends: the markdown exists (218),
\* DownloadFile fails before its transfer (303-306) or in it (309-312),
\* PDFToMarkdown fails (231), or the file is converted (236); each of these
\* goes on with the next file. Or PDFToMarkdown panics in
\* cleanupMarkdownText, which ends the program.
DownloadOutcomes == {"exists", "tmpdir", "transfer", "convert", "converted", "panic"}

DownloadSent(outcome) ==
    IF outcome \in {"exists", "tmpdir"} THEN <<>>
    ELSE <<Sent("transfer", outcome # "transfer")>>

\* part_000:278-279, 225-227: with the converter's options, some extracted
\* text makes cleanupMarkdownText panic: a heading of one '#' does
ConvertCanPanic ==
    /\ mdOptions.CleanupText
    /\ HeadingPanics(<<"#">>, mdOptions.HeaderLevelAdjust)

ProcessListed ==
    /\ hpc = "files"
    /\ fileIdx <= Len(listed)
    /\ \E outcome \in {o \in DownloadOutcomes : o = "panic" => ConvertCanPanic} :
          /\ remote' = remote \o DownloadSent(outcome)
          /\ IF outcome = "panic"
             THEN /\ hpc' = "panicked"
                  /\ ret' = "panic"
                  /\ fileIdx' = fileIdx
             ELSE /\ fileIdx' = fileIdx + 1
                  /\ UNCHANGED <<hpc, ret>>
    /\ UNCHANGED <<flags, paths, pathIdx>>
    /\ UNCHANGED clientVars
    /\ UNCHANGED otherThanSync

\* line 239
ListedDone ==
    /\ hpc = "files"
    /\ fileIdx > Len(listed)
    /\ Return("nil")
    /\ UNCHANGED <<flags, paths, pathIdx, fileIdx, remote>>
    /\ UNCHANGED clientVars
    /\ UNCHANGED otherThanSync

SyncNext ==
    \/ CheckExcept \/ NewClient \/ NewConverter \/ StopXochitl \/ SkipStop
    \/ StatFails \/ ProcessFile \/ PathDone \/ Cleanup \/ RestartXochitl \/ SkipRestart
    \/ MkdirInbox \/ ListDevice \/ ProcessListed \/ ListedDone

----------------------------------------------------------------------------
(* remarkable.Client called directly: UploadFile, ListFiles and             *)
(* CleanupExcept, one call after another on one device directory.           *)

MaxCalls == 2

DeviceInit ==
    /\ HandlerIdle
    /\ device \in Devices
    /\ uuids = 0
    /\ listed = <<>>
    /\ call = NoCall

CanCall == hpc = "idle" /\ call.n < MaxCalls

\* the extensions of the local paths given to UploadFile
LocalExts == {"pdf", "epub"}

\* lines 193-268
CallUploadFile ==
    /\ CanCall
    /\ \E visibleName \in VisibleNames, ext \in LocalExts, failAt \in UploadOutcomes :
          /\ uuids' = uuids + 1
          /\ device' = Uploaded(device, NewUUID(uuids + 1), visibleName,
                                FileTypeOf(ext), failAt)
          /\ call' = [op |-> "UploadFile", name |-> visibleName,
                      fileType |-> FileTypeOf(ext), pattern |-> {},
                      fault |-> failAt, err |-> UploadFile(failAt).err,
                      n |-> call.n + 1]
    /\ UNCHANGED <<flags, hpc, paths, pathIdx, fileIdx, remote, ret, listed>>
    /\ UNCHANGED otherThanSync

\* lines 270-300
CallListFiles ==
    /\ CanCall
    /\ \E fault \in Faults(device) :
          LET res == ListFiles(device, fault)
          IN  /\ listed' = res.files
              /\ call' = [op |-> "ListFiles", name |-> <<>>, fileType |-> <<>>,
                          pattern |-> {}, fault |-> fault, err |-> res.err,
                          n |-> call.n + 1]
    /\ UNCHANGED <<flags, hpc, paths, pathIdx, fileIdx, remote, ret, device, uuids>>
    /\ UNCHANGED otherThanSync

\* lines 325-353
CallCleanupExcept ==
    /\ CanCall
    /\ \E pattern \in Patterns, fault \in Faults(device) :
          LET res == CleanupExcept(device, pattern, fault)
          IN  /\ device' = res.device
              /\ call' = [op |-> "CleanupExcept", name |-> <<>>, fileType |-> <<>>,
                          pattern |-> pattern, fault |-> fault, err |-> res.err,
                          n |-> call.n + 1]
    /\ UNCHANGED <<flags, hpc, paths, pathIdx, fileIdx, remote, ret, uuids, listed>>
    /\ UNCHANGED otherThanSync

DeviceNext == CallUploadFile \/ CallListFiles \/ CallCleanupExcept

----------------------------------------------------------------------------
(* remarkable.Client.TransferFile (part_001 lines 88-139): the calling      *)
(* goroutine, the copy goroutine of lines 115-122 and the timer of           *)
(* time.After. The file is copied in chunks.                                 *)

MaxChunks == 3

\* line 114: done := make(chan error, 1)
MakeDone == [cap |-> 1, buf |-> <<>>]

\* the channel made without a buffer
MakeDoneUnbuffered == [cap |-> 0, buf |-> <<>>]

NoChan == [cap |-> 0, buf |-> <<>>]

TransferInit ==
    /\ tpc = "session"
    /\ gpc = "none"
    /\ done = NoChan
    /\ fileSize = 0
    /\ copied = 0
    /\ copyErr = FALSE
    /\ timer = "unset"
    /\ tret = "running"
    /\ scp = FALSE
    /\ closed = FALSE

TransferIdle ==
    /\ tpc = "idle"
    /\ gpc = "none"
    /\ done = NoChan
    /\ fileSize = 0
    /\ copied = 0
    /\ copyErr = FALSE
    /\ timer = "unset"
    /\ tret = "running"
    /\ scp = FALSE
    /\ closed = FALSE

\* a return of TransferFile: the deferred bar.Finish, f.Close and
\* session.Close (lines 93, 99, 109) run
TransferReturn(value) ==
    /\ tpc' = "returned"
    /\ tret' = value
    /\ closed' = TRUE

\* lines 89-93
NewSession ==
    /\ tpc = "session"
    /\ \E ok \in BOOLEAN :
          IF ok
          THEN /\ tpc' = "open"
               /\ UNCHANGED <<tret, closed>>
          ELSE /\ tpc' = "returned"
               /\ tret' = "session"
               /\ closed' = closed
    /\ UNCHANGED <<gpc, done, fileSize, copied, copyErr, timer, scp>>
    /\ UNCHANGED otherThanTransfer

\* lines 95-99
OpenLocal ==
    /\ tpc = "open"
    /\ \E ok \in BOOLEAN :
          IF ok
          THEN /\ tpc' = "stat"
               /\ UNCHANGED <<tret, closed>>
          ELSE TransferReturn("open")
    /\ UNCHANGED <<gpc, done, fileSize, copied, copyErr, timer, scp>>
    /\ UNCHANGED otherThanTransfer

\* lines 101-112
StatLocal ==
    /\ tpc = "stat"
    /\ \E ok \in BOOLEAN, chunks \in 0..MaxChunks :
          IF ok
          THEN /\ tpc' = "go"
               /\ fileSize' = chunks
               /\ UNCHANGED <<tret, closed>>
          ELSE /\ TransferReturn("stat")
               /\ fileSize' = fileSize
    /\ UNCHANGED <<gpc, done, copied, copyErr, timer, scp>>
    /\ UNCHANGED otherThanTransfer

\* the channel made without a buffer
StartCopyUnbuffered ==
    /\ tpc = "go"
    /\ done' = MakeDoneUnbuffered
    /\ gpc' = "pipe"
    /\ tpc' = "select"
    /\ timer' = "running"
    /\ UNCHANGED <<fileSize, copied, copyErr, tret, scp, closed>>
    /\ UNCHANGED otherThanTransfer

\* lines 114-115 and 125, 130: the channel is made, the goroutine started,
\* and the select entered, which starts the timer
StartCopy ==
    /\ tpc = "go"
    /\ done' = MakeDone
    /\ gpc' = "pipe"
    /\ tpc' = "select"
    /\ timer' = "running"
    /\ UNCHANGED <<fileSize, copied, copyErr, tret, scp, closed>>
    /\ UNCHANGED otherThanTransfer

\* line 130: TIMEOUT has passed
TimerFires ==
    /\ timer = "running"
    /\ timer' = "fired"
    /\ UNCHANGED <<tpc, gpc, done, fileSize, copied, copyErr, tret, scp, closed>>
    /\ UNCHANGED otherThanTransfer

\* lines 126-129: the select receives from done
ReceiveDone ==
    /\ tpc = "select"
    /\ done.buf # <<>>
    /\ done' = [done EXCEPT !.buf = Tail(@)]
    /\ IF Head(done.buf)
       THEN TransferReturn("transfer")
       ELSE /\ tpc' = "run"
            /\ UNCHANGED <<tret, closed>>
    /\ UNCHANGED <<gpc, fileSize, copied, copyErr, timer, scp>>
    /\ UNCHANGED otherThanTransfer

\* lines 130-131: the select receives from the timer
ReceiveTimeout ==
    /\ tpc = "select"
    /\ timer = "fired"
    /\ TransferReturn("timeout")
    /\ UNCHANGED <<gpc, done, fileSize, copied, copyErr, timer, scp>>
    /\ UNCHANGED otherThanTransfer

\* line 134: session.Run starts the remote scp command and waits for it
RunScp ==
    /\ tpc = "run"
    /\ scp' = TRUE
    /\ tpc' = "wait"
    /\ UNCHANGED <<gpc, done, fileSize, copied, copyErr, timer, tret, closed>>
    /\ UNCHANGED otherThanTransfer

\* lines 134-138: the remote command has ended, TransferFile returns
ScpEnds ==
    /\ tpc = "wait"
    /\ \E ok \in BOOLEAN : TransferReturn(IF ok THEN "nil" ELSE "scp")
    /\ UNCHANGED <<gpc, done, fileSize, copied, copyErr, timer, scp>>
    /\ UNCHANGED otherThanTransfer

\* lines 116-119: the goroutine takes the stdin pipe and writes the header
WriteHeader ==
    /\ gpc = "pipe"
    /\ gpc' = "copy"
    /\ UNCHANGED <<tpc, done, fileSize, copied, copyErr, timer, tret, scp, closed>>
    /\ UNCHANGED otherThanTransfer

\* line 120: io.Copy copies a chunk, or fails; it fails once the file and the
\* session are closed
CopyChunk ==
    /\ gpc = "copy"
    /\ copied < fileSize
    /\ \E ok \in IF closed THEN {FALSE} ELSE BOOLEAN :
          IF ok
          THEN /\ copied' = copied + 1
               /\ UNCHANGED <<gpc, copyErr>>
          ELSE /\ copyErr' = TRUE
               /\ gpc' = "send"
               /\ copied' = copied
    /\ UNCHANGED <<tpc, done, fileSize, timer, tret, scp, closed>>
    /\ UNCHANGED otherThanTransfer

\* line 120: io.Copy reads the end of the file
CopyEnds ==
    /\ gpc = "copy"
    /\ copied = fileSize
    /\ copyErr' = closed
    /\ gpc' = "send"
    /\ UNCHANGED <<tpc, done, fileSize, copied, timer, tret, scp, closed>>
    /\ UNCHANGED otherThanTransfer

\* line 121: done <- err, which waits while the buffer is full
SendDone ==
    /\ gpc = "send"
    /\ Len(done.buf) < done.cap
    /\ done' = [done EXCEPT !.buf = Append(@, copyErr)]
    /\ gpc' = "sent"
    /\ UNCHANGED <<tpc, fileSize, copied, copyErr, timer, tret, scp, closed>>
    /\ UNCHANGED otherThanTransfer

\* line 117: the deferred w.Close(), and the goroutine ends
CloseStdin ==
    /\ gpc = "sent"
    /\ gpc' = "exited"
    /\ UNCHANGED <<tpc, done, fileSize, copied, copyErr, timer, tret, scp, closed>>
    /\ UNCHANGED otherThanTransfer

\* the goroutine has sent on done
HasSent == gpc \in {"sent", "exited"}

TransferNext ==
    \/ NewSession \/ OpenLocal \/ StatLocal \/ StartCopy \/ TimerFires
    \/ ReceiveDone \/ ReceiveTimeout \/ RunScp \/ ScpEnds
    \/ WriteHeader \/ CopyChunk \/ CopyEnds \/ SendDone \/ CloseStdin

----------------------------------------------------------------------------
(* The specifications *)

\* PDF to markdown: Converter.PDFToMarkdown
Init == TextInit /\ RenderIdle /\ SyncIdle /\ TransferIdle
Next == TextNext
Spec == Init /\ [][Next]_vars

\* markdown to PDF: Converter.processMarkdown
InitRender == TextIdle /\ RenderInit /\ SyncIdle /\ TransferIdle
SpecRender == InitRender /\ [][RenderNext]_vars

\* the commands: to-remarkable, obsidian, from-remarkable, cleanup
InitSync == TextIdle /\ RenderIdle /\ SyncInit /\ TransferIdle
SpecSync == InitSync /\ [][SyncNext]_vars

\* the Client methods called one after another
InitDevice == TextIdle /\ RenderIdle /\ DeviceInit /\ TransferIdle
SpecDevice == InitDevice /\ [][DeviceNext]_vars

\* one call of Client.TransferFile
InitTransfer == TextIdle /\ RenderIdle /\ SyncIdle /\ TransferInit
SpecTransfer == InitTransfer /\ [][TransferNext]_vars

----------------------------------------------------------------------------
(* Text reconstruction: the properties *)

\* a loop iteration is about to process lines[pos]
AtLine == pc = "loop" /\ pos <= Len(lines)
\* line 215: the line the iteration works on
cur == TrimSpace(lines[pos])
adjust == mdOptions.HeaderLevelAdjust

IsBlank(line) == TrimSpace(line) = <<>>
\* the length of the leading run of "#"
LeadingHashes(line) == Len(line) - Len(TrimLeft(line, {"#"}))
Clamp(n, lo, hi) == IF n < lo THEN lo ELSE IF n > hi THEN hi ELSE n
LooksStructured(line) == IsHeadingLine(line) \/ IsBulletLine(line) \/ MatchNumbered(line)

\* C1: outside a fence, a heading line with a leading run of L in 1..6 is emitted
\* with exactly clamp(L + k, 1, 6) "#", one space and the title, for every adjustment
\* k, and the reconstruction never fails on it.
C1_HeadingLevelClamped ==
    [][ (AtLine /\ ~inCodeBlock /\ IsHeadingLine(cur) /\ LeadingHashes(cur) \in 1..6)
        => /\ pc' = "loop"
           /\ result' = Append(result,
                  Repeat("#", Clamp(LeadingHashes(cur) + adjust, 1, 6))
                  \o <<" ">> \o TrimSpace(TrimLeft(cur, {"#"}))) ]_vars

\* C2: when a line that looks like a heading, a bullet or a numbered item stands
\* strictly between an opening and a closing fence marker, every line between the
\* two markers is emitted unmodified, with its leading and trailing whitespace.
C2_FenceInteriorVerbatim ==
    [][ (/\ AtLine
         /\ inCodeBlock
         /\ \A i \in 1..Len(lines) :
                HasPrefix(TrimSpace(lines[i]), Fence) => TrimSpace(lines[i]) = Fence
         /\ cur # Fence
         /\ \E j \in (pos + 1)..Len(lines) : TrimSpace(lines[j]) = Fence
         /\ \E i \in 1..Len(lines) :
                /\ LooksStructured(TrimSpace(lines[i]))
                /\ \E o \in 1..(i - 1) :
                       /\ o < pos
                       /\ TrimSpace(lines[o]) = Fence
                       /\ \A m \in (o + 1)..pos : TrimSpace(lines[m]) # Fence
                       /\ \A m \in (o + 1)..i : TrimSpace(lines[m]) # Fence)
        => /\ pc' = "loop"
           /\ result' = Append(result, lines[pos]) ]_vars

\* C3: for every text and every options value with cleanup enabled, a
\* second pass over the output of the first returns it unchanged.
C3_Idempotent ==
    (pc = "write" /\ mdOptions.CleanupText)
    => LET again == cleanupMarkdownText(body, adjust)
       IN  ~again.panicked /\ again.out = body

\* C3 failing case: with adjustment 0 the first pass turned "#a#" into "## a#",
\* counting both "#", and a second pass over that output gives "### a#"
C3_Witness ==
    /\ pc = "write" /\ mdOptions.CleanupText /\ adjust = 0
    /\ extractedText = <<"#", "a", "#">>
    /\ body = <<"#", "#", " ", "a", "#">>
    /\ cleanupMarkdownText(body, adjust).out = <<"#", "#", "#", " ", "a", "#">>

\* the digits a numbered line starts with
NumberLabel(line) ==
    SubSeq(line, 1, CHOOSE n \in 1..Len(line) :
                        /\ \A i \in 1..n : line[i] \in Digits
                        /\ line[n + 1] = ".")

\* C4: outside a fence, a line matching ^\d+\.\s with label n and remainder t is
\* emitted as n, a dot, one space, and t trimmed, the label being that of the input.
C4_NumberedKeepsLabelDotSpace ==
    [][ (AtLine /\ ~inCodeBlock /\ MatchNumbered(cur))
        => /\ pc' = "loop"
           /\ result' = Append(result,
                  NumberLabel(cur) \o <<".", " ">>
                  \o TrimSpace(SubSeq(cur, Len(NumberLabel(cur)) + 2, Len(cur)))) ]_vars

NoAdjacentBlanks(ls) ==
    \A i \in 1..(Len(ls) - 1) : ~(IsBlank(ls[i]) /\ IsBlank(ls[i + 1]))

\* C5: a run of two or more blank (empty or whitespace-only) input lines leaves
\* exactly one blank line in the output (the first of the run is emitted, every
\* later one dropped), and after any prefix of the input the output emitted so far
\* holds no two adjacent blank lines.
C5_BlankRunsCollapse ==
    /\ [](NoAdjacentBlanks(result))
    /\ [](pc = "write" /\ mdOptions.CleanupText => NoAdjacentBlanks(Split(body, NL)))
    /\ [][ (AtLine /\ IsBlank(lines[pos]))
           => IF pos > 1 /\ IsBlank(lines[pos - 1])
              THEN result' = result
              ELSE result' = Append(result, <<>>) ]_vars

\* C6 as stated: the fence state flips only on a line that, trimmed, equals the
\* fence marker exactly.
C6_FenceFlipsOnExactMarkerOnly ==
    [][ AtLine => (inCodeBlock' # inCodeBlock => cur = Fence) ]_vars

\* C6 amended: the fence state flips on exactly the lines that, trimmed, begin with
\* the fence marker, whatever follows the marker; such a line is emitted trimmed
\* and is not classified by the remaining rules.
C6_FenceFlipsOnMarkerPrefix ==
    [][ AtLine
        => /\ (inCodeBlock' # inCodeBlock) <=> HasPrefix(cur, Fence)
           /\ HasPrefix(cur, Fence) => result' = Append(result, cur) ]_vars

\* C6 witness: the first line was the marker followed by further text, and the
\* fence state has flipped on it
C6_Witness ==
    /\ pc = "loop" /\ pos = 2
    /\ TrimSpace(lines[1]) = Fence \o <<"a">>
    /\ inCodeBlock
    /\ result = <<Fence \o <<"a">>>>

\* C7 as stated: with cleanup disabled the body written is the extracted text
\* with each line trimmed.
C7_DisabledWritesTrimmedLines ==
    (pc \in {"write", "done"} /\ ~mdOptions.CleanupText)
    => body = TrimLines(extractedText)

\* C7 amended: with cleanup disabled none of the rewrites is applied and the body
\* written is the extracted text unchanged, its lines not trimmed.
C7_DisabledWritesExtractedText ==
    (pc \in {"write", "done"} /\ ~mdOptions.CleanupText)
    => /\ body = extractedText
       /\ pc = "done" =>
              content = (IF mdOptions.AddFrontmatter THEN Frontmatter ELSE <<>>)
                        \o extractedText

\* C7 witness: a text with untrimmed lines, a heading and a blank run has been
\* written with cleanup disabled
C7_Witness ==
    /\ pc = "done" /\ ~mdOptions.CleanupText
    /\ extractedText = Join(<< <<" ", "-", " ", "a">>, <<" ">>, <<>> >>, NL)
    /\ content = (IF mdOptions.AddFrontmatter THEN Frontmatter ELSE <<>>) \o extractedText

----------------------------------------------------------------------------
(* Rendering: the properties *)

BlockKinds == {"Paragraph", "Heading", "ListItem"}
LastWalked == walked[Len(walked)]

EntersBlock(i) == walked[i].entering /\ walked[i].kind \in BlockKinds

\* the node walked[i] stands in a block that was entered before it and holds no
\* link up to it
InBlockWithoutLink(i) ==
    \E b \in 1..(i - 1) :
        /\ EntersBlock(b)
        /\ \A j \in b..i : walked[j].kind # "Link"

\* C8: link colour is block-scoped: whatever was walked before, the text colour in
\* effect once a Paragraph, Heading or ListItem has been entered is the default,
\* and every Text written in a block that holds no link is written in the default
\* colour.
C8_LinkColourBlockScoped ==
    /\ (walked # <<>> /\ EntersBlock(Len(walked))) => pdf.textColor = DefaultColor
    /\ \A c \in 1..Len(cells) :
           (cells[c].text = "text" /\ InBlockWithoutLink(cells[c].at))
           => cells[c].color = DefaultColor

\* C9 as stated: entering a Heading of level l sets a bold font of size
\* baseFontSize + (7 - l), never below 6pt.
C9_HeadingSizeFromBase ==
    (walked # <<>> /\ LastWalked.kind = "Heading" /\ LastWalked.entering)
    => /\ pdf.fontStyle = "B"
       /\ pdf.fontSize = options.FontSize + (7 - LastWalked.level)
       /\ pdf.fontSize >= 6

\* C9 amended: entering a Heading of level l sets the bold main font of size
\* 16 - l, whatever the base font size, and that size is never below 6pt.
C9_HeadingSizeFixedBase ==
    (walked # <<>> /\ LastWalked.kind = "Heading" /\ LastWalked.entering)
    => /\ pdf.fontFamily = "Main"
       /\ pdf.fontStyle = "B"
       /\ pdf.fontSize = 16 - LastWalked.level
       /\ pdf.fontSize >= 6

\* C9 witness: a level 6 heading entered under a base font size of 14, after a
\* code block
C9_Witness ==
    /\ Len(walked) = 3
    /\ walked[2].kind = "CodeBlock"
    /\ LastWalked = Node("Heading", 6)
    /\ options.FontSize = 14
    /\ pdf.fontSize = 10 /\ pdf.fontStyle = "B"

----------------------------------------------------------------------------
(* Command handlers: the properties *)

\* C10: with restart enabled, in to-remarkable and obsidian, no transfer is sent
\* before the stop command has succeeded and none after the restart command has
\* been sent.
C10_StopThenTransfersThenRestart ==
    (restartXochitl /\ cmd \in {"to-remarkable", "obsidian"})
    => \A i \in 1..Len(remote) :
           remote[i].op = "transfer"
           => /\ \E j \in 1..(i - 1) : remote[j] = Sent(StopCmd, TRUE)
              /\ \A j \in 1..(i - 1) : remote[j].op # RestartCmd

\* C10 witness: obsidian has returned after the stop, the transfers of an upload
\* and the restart, in that order
C10_Witness ==
    /\ cmd = "obsidian" /\ restartXochitl /\ hpc = "returned"
    /\ Len(remote) = 8
    /\ remote[1] = Sent(StopCmd, TRUE)
    /\ \A i \in 2..4 : remote[i] = Sent("transfer", TRUE)
    /\ remote[8] = Sent(RestartCmd, TRUE)

\* C11: a failing document is skipped and the later documents of the batch are
\* still processed: the loop of to-remarkable and obsidian leaves a path that
\* os.Stat found only when every file of that path has been given to process,
\* and the loop of from-remarkable goes from each listed file to the next.
C11_BatchContinues ==
    [][/\ (InLoop /\ paths[pathIdx].kind # "missing" /\ pathIdx' # pathIdx)
          => fileIdx >= Len(paths[pathIdx].files)
       /\ (hpc = "files" /\ fileIdx <= Len(listed))
          => (hpc' = "files" /\ fileIdx' = fileIdx + 1)]_vars

\* C12: with restart enabled, a handler that has sent the stop command with
\* success has sent the restart command when it returns.
C12_RestartAttemptedAfterStop ==
    (/\ hpc = "returned"
     /\ restartXochitl
     /\ cmd \in {"to-remarkable", "obsidian", "cleanup"}
     /\ \E i \in 1..Len(remote) : remote[i] = Sent(StopCmd, TRUE))
    => \E j \in 1..Len(remote) : remote[j].op = RestartCmd

----------------------------------------------------------------------------
(* The device directory: the properties *)

\* C13: after UploadFile of a PDF with visible name v has returned without
\* error, a ListFiles that follows it, none of its commands failing on the
\* connection, returns v.
C13_UploadedPdfIsListed ==
    [][(/\ call.op = "UploadFile" /\ ~call.err /\ call.fileType = PDF
        /\ call'.op = "ListFiles" /\ call'.n = call.n + 1 /\ call'.fault = 0)
       => call.name \in Range(listed')]_vars

\* the documents of a device directory: the ids of its .metadata files
Docs(dev) == {TrimSuffix(n, DotMetadata) : n \in {m \in DOMAIN dev : HasSuffix(m, DotMetadata)}}

\* C14: when CleanupExcept returns without error, the documents left on the
\* device are exactly those that were there and whose metadata matches the
\* pattern.
C14_CleanupKeepsExactlyMatching ==
    [][(call'.op = "CleanupExcept" /\ call'.n = call.n + 1 /\ ~call'.err)
       => Docs(device') =
              {d \in Docs(device) :
                  Matched(call'.pattern, device[d \o DotMetadata].content)}]_vars

----------------------------------------------------------------------------
(* TransferFile: the properties *)

\* C15: TransferFile returns one outcome: after a copy error or a timeout it
\* has not run the remote scp command; that command is run only after the copy
\* goroutine has sent a nil error; and the goroutine's send on done never
\* waits, so the goroutine is not left on the channel after a timeout.
C15_OneOutcomeAndSendNeverBlocks ==
    /\ (tpc = "returned") <=> (tret # "running")
    /\ tret \in {"transfer", "timeout"} => ~scp
    /\ tret = "transfer" => (HasSent /\ copyErr)
    /\ tret = "timeout" => timer = "fired"
    /\ (tpc = "run" \/ scp) => (HasSent /\ ~copyErr /\ copied = fileSize)
    /\ gpc = "send" => Len(done.buf) < done.cap

\* C15 witness: TransferFile has returned the timeout error and the copy
\* goroutine has afterwards sent its error to done and ended
C15_Witness ==
    /\ tret = "timeout"
    /\ gpc = "exited"
    /\ done.buf = <<TRUE>>
    /\ ~scp

====
